---- MODULE Spec2Model ----
(***************************************************************************)
(* Model of rasa/nlu/utils/__init__.py: the model-directory validator and  *)
(* remover acting on a small filesystem shared with another actor, and the *)
(* pure helpers (list_to_str, build_entity, is_url, relative_normpath,     *)
(* json_to_string).  Text is modelled as a sequence of one-character       *)
(* strings, so that prefixes, extensions and escapes are computed.         *)
(***************************************************************************)
EXTENDS Integers, Sequences, FiniteSets, TLC

VARIABLES fs, pc, op, model_dir, chk, ret, fs0, interf, deleted, args, out

vars == <<fs, pc, op, model_dir, chk, ret, fs0, interf, deleted, args, out>>

(***************************************************************************)
(* Bounds of the filesystem model.                                         *)
(***************************************************************************)
\* most nodes (files, directories, links) that exist at the same time
MaxNodes == 4
\* deepest path, counted in names below the root
MaxDepth == 3
\* most steps of the other actor while one call is running
MaxInterf == 1

(***************************************************************************)
(* Names.  A name is a sequence of characters.                             *)
(***************************************************************************)
N_m == <<"m">>
N_o == <<"o">>
N_c == <<"c">>
N_a_json == <<"a", ".", "j", "s", "o", "n">>
N_b_pkl == <<"b", ".", "p", "k", "l">>
N_c_dat == <<"c", ".", "d", "a", "t">>
N_a_txt == <<"a", ".", "t", "x", "t">>
N_dot_json == <<".", "j", "s", "o", "n">>
N_a_JSON == <<"a", ".", "J", "S", "O", "N">>
N_a_dot == <<"a", ".">>

\* the directories a caller passes, directly below the root
TopNames == {N_m, N_o}
\* what may appear inside a directory passed by the caller
EntryNames == {N_a_json, N_b_pkl, N_c_dat, N_a_txt, N_dot_json, N_a_JSON, N_a_dot, N_c}
\* what may appear deeper down
InnerNames == {N_a_txt}

NamesAt(depth) ==
  IF depth = 1 THEN TopNames ELSE IF depth = 2 THEN EntryNames ELSE InnerNames

\* kinds of node: a regular file, a real directory, a symbolic link to a
\* directory that lives elsewhere
Kinds == {"file", "dir", "link"}

\* the empty filesystem
NoFiles == [q \in {} |-> "file"]

Parent(p) == SubSeq(p, 1, Len(p) - 1)

IsPrefix(p, q) == Len(p) <= Len(q) /\ SubSeq(q, 1, Len(p)) = p

\* the nodes at or below p
Under(f, p) == {q \in DOMAIN f : IsPrefix(p, q)}

\* names of the entries directly in directory p
Listing(f, p) == {q[Len(q)] : q \in {r \in DOMAIN f : Len(r) = Len(p) + 1 /\ IsPrefix(p, r)}}

(***************************************************************************)
(* os.path.splitext, as is_model_dir uses it on a bare file name: the      *)
(* extension starts at the last dot, unless only dots precede that dot.    *)
(***************************************************************************)
RECURSIVE rfind(_, _, _)
rfind(s, ch, i) ==
  IF i = 0 THEN 0 ELSE IF s[i] = ch THEN i ELSE rfind(s, ch, i - 1)

\* variant: the extension is whatever follows the last dot
splitext_lastdot(name) ==
  LET dotIndex == rfind(name, ".", Len(name))
  IN IF dotIndex > 0
       THEN <<SubSeq(name, 1, dotIndex - 1), SubSeq(name, dotIndex, Len(name))>>
       ELSE <<name, <<>>>>

splitext(name) ==
  LET dotIndex == rfind(name, ".", Len(name))
      leading == \A i \in 1..(dotIndex - 1) : name[i] = "."
  IN IF dotIndex > 0 /\ ~leading
       THEN <<SubSeq(name, 1, dotIndex - 1), SubSeq(name, dotIndex, Len(name))>>
       ELSE <<name, <<>>>>

allowed_extensions ==
  {<<".", "j", "s", "o", "n">>, <<".", "p", "k", "l">>, <<".", "d", "a", "t">>}

(***************************************************************************)
(* os.walk(top) with its defaults (topdown, onerror=None, followlinks      *)
(* False): a top that cannot be listed yields nothing, a link to a         *)
(* directory is reported among the directories but not walked into.        *)
(***************************************************************************)
RECURSIVE walk(_, _)
RECURSIVE walk_all(_, _, _)
walk_all(f, top, names) ==
  IF names = {} THEN <<>>
  ELSE LET n == CHOOSE x \in names : TRUE
           new_path == Append(top, n)
           sub == IF f[new_path] = "link" THEN <<>> ELSE walk(f, new_path)
       IN sub \o walk_all(f, top, names \ {n})

walk(f, top) ==
  IF top \notin DOMAIN f \/ f[top] # "dir" THEN <<>>
  ELSE LET entries == Listing(f, top)
           dirs == {n \in entries : f[Append(top, n)] \in {"dir", "link"}}
           nondirs == entries \ dirs
       IN <<<<top, dirs, nondirs>>>> \o walk_all(f, top, dirs)

\* variant: only a tree of more than one level is rejected
is_model_dir_empty_ok(f, d) ==
  LET dir_tree == walk(f, d)
  IN IF Len(dir_tree) > 1 THEN FALSE
     ELSE IF Len(dir_tree) = 0 THEN TRUE
     ELSE \A x \in dir_tree[1][3] : splitext(x)[2] \in allowed_extensions

is_model_dir(f, d) ==
  LET dir_tree == walk(f, d)
  IN IF Len(dir_tree) # 1 THEN FALSE
     ELSE LET files == dir_tree[1][3]
              file_extenstions == {splitext(x)[2] : x \in files}
              only_valid_files == \A ext \in file_extenstions : ext \in allowed_extensions
          IN only_valid_files

(***************************************************************************)
(* shutil.rmtree(path): fails on a path that is not a real directory,      *)
(* otherwise unlinks everything at and below it (links are unlinked, not   *)
(* followed).                                                              *)
(***************************************************************************)
rmtree_fails(f, p) == p \notin DOMAIN f \/ f[p] # "dir"

\* variant: empties the directory but leaves the directory itself
rmtree_contents_only(f, p) == [q \in (DOMAIN f) \ (Under(f, p) \ {p}) |-> f[q]]

rmtree(f, p) == [q \in (DOMAIN f) \ Under(f, p) |-> f[q]]

(***************************************************************************)
(* The other actor: creates and removes single nodes.                      *)
(***************************************************************************)
CanInterfere == pc = "idle" \/ (pc \in {"check", "rmtree"} /\ interf < MaxInterf)

Bump == interf' = IF pc = "idle" THEN interf ELSE interf + 1

EnvCreate ==
  /\ CanInterfere
  /\ Cardinality(DOMAIN fs) < MaxNodes
  /\ \E depth \in 1..MaxDepth : \E n \in NamesAt(depth) :
       \E par \in {<<>>} \cup {q \in DOMAIN fs : fs[q] = "dir"} :
         \E k \in Kinds :
           /\ Len(par) = depth - 1
           /\ Append(par, n) \notin DOMAIN fs
           /\ depth = 1 => k # "link"
           /\ fs' = [q \in (DOMAIN fs) \cup {Append(par, n)} |->
                      IF q = Append(par, n) THEN k ELSE fs[q]]
  /\ Bump
  /\ UNCHANGED <<pc, op, model_dir, chk, ret, fs0, deleted, args, out>>

EnvRemove ==
  /\ CanInterfere
  /\ \E p \in DOMAIN fs :
       /\ Under(fs, p) = {p}
       /\ fs' = [q \in (DOMAIN fs) \ {p} |-> fs[q]]
  /\ Bump
  /\ UNCHANGED <<pc, op, model_dir, chk, ret, fs0, deleted, args, out>>

(***************************************************************************)
(* is_model_dir called on its own.                                         *)
(***************************************************************************)
IsModelDirCall ==
  /\ pc = "idle"
  /\ \E n \in TopNames :
       /\ model_dir' = <<n>>
       /\ chk' = is_model_dir(fs, <<n>>)
       /\ ret' = IF is_model_dir(fs, <<n>>) THEN "True" ELSE "False"
  /\ op' = "is_model_dir"
  /\ pc' = "done"
  /\ fs0' = fs
  /\ interf' = 0
  /\ UNCHANGED <<fs, deleted, args, out>>

(***************************************************************************)
(* remove_model: the check and the deletion are separate steps.            *)
(***************************************************************************)
RemoveModelCall ==
  /\ pc = "idle"
  /\ \E n \in TopNames : model_dir' = <<n>>
  /\ op' = "remove_model"
  /\ pc' = "check"
  /\ fs0' = fs
  /\ interf' = 0
  /\ UNCHANGED <<fs, chk, ret, deleted, args, out>>

\* variant: deletes first, validates after
RemoveModelCheck_delete_first ==
  /\ pc = "check"
  /\ chk' = is_model_dir(fs, model_dir)
  /\ IF rmtree_fails(fs, model_dir)
       THEN fs' = fs /\ deleted' = deleted
       ELSE fs' = rmtree(fs, model_dir) /\ deleted' = [q \in Under(fs, model_dir) |-> fs[q]]
  /\ pc' = "done"
  /\ ret' = IF is_model_dir(fs, model_dir) THEN "True" ELSE "ValueError"
  /\ UNCHANGED <<op, model_dir, fs0, interf, args, out>>

RemoveModelCheck ==
  /\ pc = "check"
  /\ chk' = is_model_dir(fs, model_dir)
  /\ IF is_model_dir(fs, model_dir)
       THEN pc' = "rmtree" /\ ret' = ret
       ELSE pc' = "done" /\ ret' = "ValueError"
  /\ UNCHANGED <<fs, op, model_dir, fs0, interf, deleted, args, out>>

\* variant: validates again, atomically with the deletion
RemoveModelRmtree_recheck ==
  /\ pc = "rmtree"
  /\ IF rmtree_fails(fs, model_dir)
       THEN fs' = fs /\ ret' = "FilesystemError" /\ deleted' = deleted
       ELSE IF ~is_model_dir(fs, model_dir)
         THEN fs' = fs /\ ret' = "ValueError" /\ deleted' = deleted
         ELSE /\ fs' = rmtree(fs, model_dir)
              /\ ret' = "True"
              /\ deleted' = [q \in Under(fs, model_dir) |-> fs[q]]
  /\ pc' = "done"
  /\ UNCHANGED <<op, model_dir, chk, fs0, interf, args, out>>

RemoveModelRmtree ==
  /\ pc = "rmtree"
  /\ IF rmtree_fails(fs, model_dir)
       THEN fs' = fs /\ ret' = "FilesystemError" /\ deleted' = deleted
       ELSE /\ fs' = rmtree(fs, model_dir)
            /\ ret' = "True"
            /\ deleted' = [q \in Under(fs, model_dir) |-> fs[q]]
  /\ pc' = "done"
  /\ UNCHANGED <<op, model_dir, chk, fs0, interf, args, out>>

Return ==
  /\ pc = "done"
  /\ pc' = "idle"
  /\ op' = "none"
  /\ model_dir' = <<>>
  /\ chk' = FALSE
  /\ ret' = "none"
  /\ fs0' = NoFiles
  /\ interf' = 0
  /\ deleted' = NoFiles
  /\ UNCHANGED <<fs, args, out>>

\* no filesystem call is running and the filesystem is empty
FsIdle ==
  /\ fs = NoFiles
  /\ model_dir = <<>>
  /\ chk = FALSE
  /\ ret = "none"
  /\ fs0 = NoFiles
  /\ interf = 0
  /\ deleted = NoFiles

FsVars == <<fs, model_dir, chk, ret, fs0, interf, deleted>>

Init ==
  /\ FsIdle
  /\ pc = "idle"
  /\ op = "none"
  /\ args = <<>>
  /\ out = <<>>

Next ==
  \/ EnvCreate
  \/ EnvRemove
  \/ IsModelDirCall
  \/ RemoveModelCall
  \/ RemoveModelCheck
  \/ RemoveModelRmtree
  \/ Return

Spec == Init /\ [][Next]_vars

TypeOK ==
  /\ pc \in {"idle", "check", "rmtree", "done"}
  /\ op \in {"none", "is_model_dir", "remove_model"}
  /\ chk \in BOOLEAN
  /\ ret \in {"none", "True", "False", "ValueError", "FilesystemError"}
  /\ interf \in 0..MaxInterf
  /\ \A p \in DOMAIN fs : fs[p] \in Kinds /\ (Len(p) > 1 => Parent(p) \in DOMAIN fs)

(***************************************************************************)
(* Properties of the model-directory validator and remover.                *)
(***************************************************************************)
IsDir(f, p) == p \in DOMAIN f /\ f[p] = "dir"

Finished(o) == pc = "done" /\ op = o

\* C1: a remove_model whose is_model_dir check was false ends in the
\* validation error with the filesystem as it was at the call, and the only
\* step of a call that changes the filesystem is the rmtree step, which is
\* taken only after a true check.
C1_ValidateBeforeDelete ==
  /\ [](Finished("remove_model") /\ ~chk =>
          ret = "ValueError" /\ (interf = 0 => fs = fs0))
  /\ [][(pc' # pc /\ fs' # fs) => (pc = "rmtree" /\ chk)]_vars

\* a non-empty directory that failed the check and is still there
C1_Witness ==
  /\ Finished("remove_model") /\ ~chk /\ ret = "ValueError"
  /\ IsDir(fs, model_dir)
  /\ Cardinality(Under(fs, model_dir)) >= 2

\* the extension as the claim words it: the part from the last dot
LastDotExt(name) ==
  IF \E i \in 1..Len(name) : name[i] = "."
    THEN LET i == CHOOSE j \in 1..Len(name) :
                    name[j] = "." /\ \A k \in (j + 1)..Len(name) : name[k] # "."
         IN SubSeq(name, i, Len(name))
    ELSE <<>>

\* the extension of os.path.splitext: the part from the last dot, provided
\* some character other than a dot precedes that dot
StemDotExt(name) ==
  IF \E i \in 1..Len(name) : name[i] = "." /\ \E j \in 1..(i - 1) : name[j] # "."
    THEN LastDotExt(name)
    ELSE <<>>

AllowedExts ==
  {<<".", "j", "s", "o", "n">>, <<".", "p", "k", "l">>, <<".", "d", "a", "t">>}

EntriesOfKind(f, d, ks) == {n \in Listing(f, d) : f[Append(d, n)] \in ks}

Missing(f, p) == p \notin DOMAIN f

\* C3 as stated: on a path that does not exist, is_model_dir and remove_model
\* fail with the filesystem error.
C3_AsStated ==
  (pc = "done" /\ Missing(fs0, model_dir) /\ interf = 0) => ret = "FilesystemError"

\* C3 amended: on a path that does not exist, is_model_dir returns false
\* (the walk yields nothing), and remove_model fails with the validation
\* error and changes nothing.
C3_MissingPathIsNotModelDir ==
  (pc = "done" /\ Missing(fs0, model_dir) /\ interf = 0) =>
    /\ op = "is_model_dir" => ret = "False"
    /\ op = "remove_model" => ret = "ValueError" /\ fs = fs0

\* remove_model was refused on a missing path while other nodes exist
C3_Witness ==
  /\ Finished("remove_model") /\ Missing(fs0, model_dir) /\ interf = 0
  /\ ret = "ValueError" /\ DOMAIN fs # {}

\* C4: the rmtree step does not validate again: run on a directory that by
\* now fails the predicate, it deletes the whole tree and remove_model
\* returns true.
C4_DeleteDoesNotRevalidate ==
  [][(pc = "rmtree" /\ pc' = "done" /\ IsDir(fs, model_dir)
        /\ ~is_model_dir(fs, model_dir))
       => (ret' = "True" /\ Under(fs', model_dir) = {}
             /\ deleted' = [q \in Under(fs, model_dir) |-> fs[q]])]_vars

\* content that fails the predicate has been deleted by a call that
\* returned true
C4_Witness ==
  /\ Finished("remove_model") /\ ret = "True" /\ chk
  /\ IsDir(deleted, model_dir)
  /\ ~is_model_dir(deleted, model_dir)
  /\ Under(fs, model_dir) = {}

\* C5: a remove_model called on a model directory, with no step of the other
\* actor during the call, returns true, leaves nothing at or below the path
\* and leaves every other node as it was.
C5_RemoveFrame ==
  (Finished("remove_model") /\ interf = 0 /\ is_model_dir(fs0, model_dir)) =>
    /\ ret = "True"
    /\ Under(fs, model_dir) = {}
    /\ DOMAIN fs = (DOMAIN fs0) \ Under(fs0, model_dir)
    /\ \A q \in DOMAIN fs : fs[q] = fs0[q]

\* a model directory with content was removed next to another directory
\* that has content
C5_Witness ==
  /\ Finished("remove_model") /\ interf = 0 /\ is_model_dir(fs0, model_dir)
  /\ ret = "True"
  /\ Cardinality(Under(fs0, model_dir)) >= 2
  /\ Cardinality(DOMAIN fs) >= 2

(***************************************************************************)
(* The pure helpers.  A call takes its arguments from args and leaves its  *)
(* outcome in out.  Values are tagged: None, a string, a boolean, a raised *)
(* error.                                                                  *)
(***************************************************************************)
None == <<"None">>

Str(s) == <<"str", s>>

Bool(b) == <<"bool", b>>

Raise(e) == <<"raise", e>>

StringsUpTo(alphabet, n) == UNION {[1..k -> alphabet] : k \in 0..n}

PureInit(inputs) ==
  /\ FsIdle
  /\ pc = "idle"
  /\ op = "none"
  /\ args \in inputs
  /\ out = <<>>

PureCall(name, result) ==
  /\ pc = "idle"
  /\ pc' = "done"
  /\ op' = name
  /\ out' = result
  /\ UNCHANGED <<args, FsVars>>

(***************************************************************************)
(* list_to_str                                                             *)
(***************************************************************************)
\* longest element and longest list that are tried
MaxStrLen == 2
MaxListLen == 2

DefaultDelim == <<",", " ">>

DefaultQuote == <<"'">>

ListChars == {"a", ",", " ", "'"}

RECURSIVE join(_, _)
join(delim, parts) ==
  IF parts = <<>> THEN <<>>
  ELSE IF Len(parts) = 1 THEN parts[1]
  ELSE parts[1] \o delim \o join(delim, Tail(parts))

\* variant: the delimiter follows every element
list_to_str_trailing(lst, delim, quote) ==
  join(<<>>, [i \in 1..Len(lst) |-> quote \o lst[i] \o quote \o delim])

list_to_str(lst, delim, quote) ==
  join(delim, [i \in 1..Len(lst) |-> quote \o lst[i] \o quote])

ListInputs == UNION {[1..k -> StringsUpTo(ListChars, MaxStrLen)] : k \in 0..MaxListLen}

ListToStrCall ==
  PureCall("list_to_str", list_to_str(args, DefaultDelim, DefaultQuote))

InitList == PureInit(ListInputs)

NextList == ListToStrCall

SpecList == InitList /\ [][NextList]_vars

\* the positions at which pat occurs in s
Occurrences(s, pat) ==
  {i \in 1..(Len(s) - Len(pat) + 1) : SubSeq(s, i, i + Len(pat) - 1) = pat}

RECURSIVE SumOcc(_, _)
SumOcc(lst, pat) ==
  IF lst = <<>> THEN 0
  ELSE Cardinality(Occurrences(lst[1], pat)) + SumOcc(Tail(lst), pat)

Wrapped(e) == DefaultQuote \o e \o DefaultQuote

\* C6 as stated: whatever the characters of the elements, the result of a
\* non-empty list holds exactly len-1 delimiters and every element between
\* quotes, and the result of the empty list is empty.
C6_AsStated ==
  Finished("list_to_str") =>
    IF args = <<>> THEN out = <<>>
    ELSE /\ Cardinality(Occurrences(out, DefaultDelim)) = Len(args) - 1
         /\ \A i \in 1..Len(args) : Occurrences(out, Wrapped(args[i])) # {}

\* C6 amended: the result of a non-empty list holds every element between
\* quotes and exactly len-1 delimiters besides those that occur inside the
\* elements themselves (so exactly len-1 when no element contains the
\* delimiter); the result of the empty list is empty.
C6_DelimiterCount ==
  Finished("list_to_str") =>
    IF args = <<>> THEN out = <<>>
    ELSE /\ Cardinality(Occurrences(out, DefaultDelim))
              = Len(args) - 1 + SumOcc(args, DefaultDelim)
         /\ (SumOcc(args, DefaultDelim) = 0 =>
               Cardinality(Occurrences(out, DefaultDelim)) = Len(args) - 1)
         /\ \A i \in 1..Len(args) : Occurrences(out, Wrapped(args[i])) # {}

\* two elements, one of them holding the delimiter, were joined
C6_Witness ==
  /\ Finished("list_to_str")
  /\ Len(args) = 2
  /\ SumOcc(args, DefaultDelim) = 1
  /\ Cardinality(Occurrences(out, DefaultDelim)) = 2

(***************************************************************************)
(* is_url                                                                  *)
(***************************************************************************)
\* longest text that follows the scheme and separator
MaxRest == 1

\* the pattern of line 120, as the characters of the raw string
URL_REGEX_SOURCE ==
  <<"h", "t", "t", "p", ":", "/", "/", "|",
    "h", "t", "t", "p", "s", ":", "/", "/", "|",
    "f", "t", "p", ":", "/", "/", "|",
    "f", "i", "l", "e", ":", "/", "/", "|",
    "f", "i", "l", "e", ":", "\\", "\\">>

\* variant: a backslash of the pattern is taken as an ordinary character
RECURSIVE re_compile_raw(_, _, _)
re_compile_raw(src, i, cur) ==
  IF i > Len(src) THEN {cur}
  ELSE IF src[i] = "|" THEN {cur} \cup re_compile_raw(src, i + 1, <<>>)
  ELSE re_compile_raw(src, i + 1, Append(cur, src[i]))

\* re.compile of a pattern made of literal alternatives: "|" separates the
\* alternatives and a backslash makes the next character literal
RECURSIVE re_compile(_, _, _)
re_compile(src, i, cur) ==
  IF i > Len(src) THEN {cur}
  ELSE IF src[i] = "|" THEN {cur} \cup re_compile(src, i + 1, <<>>)
  ELSE IF src[i] = "\\" THEN re_compile(src, i + 2, Append(cur, src[i + 1]))
  ELSE re_compile(src, i + 1, Append(cur, src[i]))

\* pattern.match(text): an alternative matches at the start of the text
re_match(alternatives, text) == \E a \in alternatives : IsPrefix(a, text)

is_url(resource_name) ==
  IF resource_name = None THEN Raise("TypeError")
  ELSE Bool(re_match(re_compile(URL_REGEX_SOURCE, 1, <<>>), resource_name[2]))

UrlLead == {<<>>, <<" ">>}

UrlScheme ==
  {<<>>, <<"h", "t", "t", "p">>, <<"h", "t", "t", "p", "s">>, <<"f", "t", "p">>,
   <<"f", "i", "l", "e">>, <<"H", "T", "T", "P">>, <<"s", "f", "t", "p">>}

UrlSep == {<<>>, <<":", "/", "/">>, <<":", "\\">>, <<":", "\\", "\\">>, <<":", "/">>}

UrlInputs ==
  {<<None>>} \cup
  {<<Str(l \o sc \o sp \o r)>> :
     l \in UrlLead, sc \in UrlScheme, sp \in UrlSep, r \in StringsUpTo({"x", "/"}, MaxRest)}

IsUrlCall == PureCall("is_url", is_url(args[1]))

InitUrl == PureInit(UrlInputs)

NextUrl == IsUrlCall

SpecUrl == InitUrl /\ [][NextUrl]_vars

\* the prefixes the claim lists
UrlPrefixes ==
  {<<"h", "t", "t", "p", ":", "/", "/">>, <<"h", "t", "t", "p", "s", ":", "/", "/">>,
   <<"f", "t", "p", ":", "/", "/">>, <<"f", "i", "l", "e", ":", "/", "/">>,
   <<"f", "i", "l", "e", ":", "\\">>}

HasUrlPrefix(v) == v # None /\ \E p \in UrlPrefixes : IsPrefix(p, v[2])

\* C8 as stated: is_url returns true exactly for a text that begins with one
\* of the five prefixes, and false, without an error, for everything else,
\* the absent input included.
C8_AsStated ==
  Finished("is_url") => out = Bool(HasUrlPrefix(args[1]))

\* C8 amended: for every text, is_url returns true exactly when the text
\* begins with one of the five prefixes and false otherwise, the empty text
\* included; for the absent input it raises TypeError.
C8_PrefixMatch ==
  Finished("is_url") =>
    IF args[1] = None THEN out = Raise("TypeError")
    ELSE out = Bool(HasUrlPrefix(args[1]))

\* is_url was called on the absent input
C8_Witness ==
  /\ Finished("is_url")
  /\ args[1] = None
  /\ out = Raise("TypeError")

(***************************************************************************)
(* build_entity                                                            *)
(***************************************************************************)
\* most keyword arguments in one call
MaxKw == 2

IntV(n) == <<"int", n>>

Dict(d) == <<"dict", d>>

\* Python truth value of None, a string or an integer
Truthy(v) == v # None /\ v # Str("") /\ v # IntV(0)

ENTITY_ATTRIBUTE_START == "start"
ENTITY_ATTRIBUTE_END == "end"
ENTITY_ATTRIBUTE_VALUE == "value"
ENTITY_ATTRIBUTE_TYPE == "type"
ENTITY_ATTRIBUTE_ROLE == "role"
ENTITY_ATTRIBUTE_GROUP == "group"

\* the named parameters of build_entity, in order; the first four are
\* required, role and group default to None
Params == <<"start", "end", "value", "entity_type", "role", "group">>

Required == 4

ParamNames == {Params[i] : i \in 1..Len(Params)}

\* dict.update
Update(d, e) ==
  [k \in (DOMAIN d) \cup (DOMAIN e) |-> IF k \in DOMAIN e THEN e[k] ELSE d[k]]

\* How Python binds a call to the signature of lines 58-66: a parameter
\* given both by position and by keyword, or a required one not given, is a
\* TypeError; keywords that name no parameter are collected in kwargs.
BindFails(pos, kw) ==
  \/ \E i \in 1..Len(pos) : Params[i] \in DOMAIN kw
  \/ \E i \in (Len(pos) + 1)..Required : Params[i] \notin DOMAIN kw

Bound(pos, kw, i) ==
  IF i <= Len(pos) THEN pos[i]
  ELSE IF Params[i] \in DOMAIN kw THEN kw[Params[i]]
  ELSE None

Kwargs(kw) == [k \in (DOMAIN kw) \ ParamNames |-> kw[k]]

\* variant: role and group are left out only when they are None
build_entity_none_check(start, end, value, entity_type, role, group, kwargs) ==
  LET entity0 == (ENTITY_ATTRIBUTE_START :> start) @@ (ENTITY_ATTRIBUTE_END :> end)
                   @@ (ENTITY_ATTRIBUTE_VALUE :> value) @@ (ENTITY_ATTRIBUTE_TYPE :> entity_type)
      entity1 == IF role # None THEN Update(entity0, ENTITY_ATTRIBUTE_ROLE :> role) ELSE entity0
      entity2 == IF group # None THEN Update(entity1, ENTITY_ATTRIBUTE_GROUP :> group) ELSE entity1
  IN Update(entity2, kwargs)

build_entity(start, end, value, entity_type, role, group, kwargs) ==
  LET entity0 == (ENTITY_ATTRIBUTE_START :> start) @@ (ENTITY_ATTRIBUTE_END :> end)
                   @@ (ENTITY_ATTRIBUTE_VALUE :> value) @@ (ENTITY_ATTRIBUTE_TYPE :> entity_type)
      entity1 == IF Truthy(role) THEN Update(entity0, ENTITY_ATTRIBUTE_ROLE :> role) ELSE entity0
      entity2 == IF Truthy(group) THEN Update(entity1, ENTITY_ATTRIBUTE_GROUP :> group) ELSE entity1
  IN Update(entity2, kwargs)

\* the call build_entity(*pos, **kw)
call_build_entity(pos, kw) ==
  IF BindFails(pos, kw) THEN Raise("TypeError")
  ELSE Dict(build_entity(Bound(pos, kw, 1), Bound(pos, kw, 2), Bound(pos, kw, 3),
                         Bound(pos, kw, 4), Bound(pos, kw, 5), Bound(pos, kw, 6),
                         Kwargs(kw)))

RoleVals == {None, Str(""), Str("location")}

PosInputs ==
  LET base == <<IntV(0), IntV(5), Str("Berlin")>>
  IN {base, Append(base, Str("city"))}
       \cup {base \o <<Str("city"), r>> : r \in RoleVals}
       \cup {base \o <<Str("city"), r, g>> : r \in RoleVals, g \in RoleVals}

KwKeys == {"start", "value", "entity_type", "role", "group", "type", "confidence"}

KwVals(k) == IF k = "start" THEN {IntV(9)} ELSE {Str(""), Str("z")}

KwInputs ==
  UNION {{kw \in [S -> {IntV(9), Str(""), Str("z")}] : \A k \in S : kw[k] \in KwVals(k)} :
           S \in {T \in SUBSET KwKeys : Cardinality(T) <= MaxKw}}

EntityInputs == PosInputs \X KwInputs

BuildEntityCall == PureCall("build_entity", call_build_entity(args[1], args[2]))

InitEntity == PureInit(EntityInputs)

NextEntity == BuildEntityCall

SpecEntity == InitEntity /\ [][NextEntity]_vars

\* the value a standard argument has in a call, by position or by keyword
Given(i) == Bound(args[1], args[2], i)

\* the mapping before the extra fields, key by key
StandardKeys ==
  {"start", "end", "value", "type"}
    \cup (IF Truthy(Given(5)) THEN {"role"} ELSE {})
    \cup (IF Truthy(Given(6)) THEN {"group"} ELSE {})

Standard ==
  [k \in StandardKeys |->
     CASE k = "start" -> Given(1)
       [] k = "end" -> Given(2)
       [] k = "value" -> Given(3)
       [] k = "type" -> Given(4)
       [] k = "role" -> Given(5)
       [] k = "group" -> Given(6)]

\* the keywords of a call that do not stand for a standard argument of their
\* own: the caller's extra fields, as the claim sees them
ExtraFields ==
  [k \in {x \in DOMAIN args[2] :
            \A i \in (Len(args[1]) + 1)..Len(Params) : Params[i] # x} |-> args[2][k]]

AllGiven == \A i \in 1..Required : i <= Len(args[1]) \/ Params[i] \in DOMAIN args[2]

\* C7 as stated: the result is the standard mapping overridden by the extra
\* fields, whatever their keys, the standard keys included.
C7_AsStated ==
  (Finished("build_entity") /\ AllGiven) => out = Dict(Update(Standard, ExtraFields))

\* C7 amended: a call that gives a parameter twice (an extra field named
\* start, end, value, entity_type, role or group next to that argument)
\* fails with TypeError; every other call returns the standard mapping, with
\* role and group present exactly when truthy, overridden by the extra
\* fields, whose only possible collision is on the key type.
C7_EntityMapping ==
  (Finished("build_entity") /\ AllGiven) =>
    IF \E k \in DOMAIN ExtraFields : k \in ParamNames
      THEN out = Raise("TypeError")
      ELSE /\ out = Dict(Update(Standard, ExtraFields))
           /\ \A k \in DOMAIN ExtraFields : out[2][k] = ExtraFields[k]
           /\ ("role" \in DOMAIN out[2]) = Truthy(Given(5))
           /\ ("group" \in DOMAIN out[2]) = Truthy(Given(6))

\* an extra field overrode the type while an empty role was left out
C7_Witness ==
  /\ Finished("build_entity")
  /\ Len(args[1]) = 6 /\ args[1][5] = Str("") /\ args[1][6] = Str("location")
  /\ "type" \in DOMAIN args[2] /\ "confidence" \in DOMAIN args[2]
  /\ out[1] = "dict"
  /\ out[2]["type"] = args[2]["type"]
  /\ DOMAIN out[2] = {"start", "end", "value", "type", "group", "confidence"}

(***************************************************************************)
(* relative_normpath, with the POSIX os.path functions it calls            *)
(***************************************************************************)
\* longest file path that is tried
MaxPathLen == 4

PathChars == {"a", "b", "/", "."}

PathV(s) == <<"Path", s>>

\* str.split("/")
RECURSIVE split(_, _, _)
split(s, i, cur) ==
  IF i > Len(s) THEN <<cur>>
  ELSE IF s[i] = "/" THEN <<cur>> \o split(s, i + 1, <<>>)
  ELSE split(s, i + 1, Append(cur, s[i]))

\* "/".join(comps)
slash_join(comps) == join(<<"/">>, comps)

isabs(p) == Len(p) > 0 /\ p[1] = "/"

\* os.path.join of two paths
path_join(a, b) ==
  IF isabs(b) THEN b
  ELSE IF a = <<>> \/ a[Len(a)] = "/" THEN a \o b
  ELSE a \o <<"/">> \o b

RECURSIVE normcomps(_, _, _)
normcomps(comps, initial_slashes, new_comps) ==
  IF comps = <<>> THEN new_comps
  ELSE LET comp == Head(comps)
           dotdot == <<".", ".">>
       IN IF comp = <<>> \/ comp = <<".">>
            THEN normcomps(Tail(comps), initial_slashes, new_comps)
          ELSE IF \/ comp # dotdot
                  \/ (initial_slashes = 0 /\ new_comps = <<>>)
                  \/ (new_comps # <<>> /\ new_comps[Len(new_comps)] = dotdot)
            THEN normcomps(Tail(comps), initial_slashes, Append(new_comps, comp))
          ELSE IF new_comps # <<>>
            THEN normcomps(Tail(comps), initial_slashes,
                           SubSeq(new_comps, 1, Len(new_comps) - 1))
          ELSE normcomps(Tail(comps), initial_slashes, new_comps)

\* os.path.normpath
normpath(path) ==
  IF path = <<>> THEN <<".">>
  ELSE LET starts(n) == Len(path) >= n /\ \A i \in 1..n : path[i] = "/"
           initial_slashes == IF ~starts(1) THEN 0
                              ELSE IF starts(2) /\ ~starts(3) THEN 2 ELSE 1
           comps == normcomps(split(path, 1, <<>>), initial_slashes, <<>>)
           joined == [i \in 1..initial_slashes |-> "/"] \o slash_join(comps)
       IN IF joined = <<>> THEN <<".">> ELSE joined

\* os.path.abspath, given the current directory
abspath(path, cwd) ==
  normpath(IF isabs(path) THEN path ELSE path_join(cwd, path))

\* [x for x in p.split("/") if x]
Components(p) == SelectSeq(split(p, 1, <<>>), LAMBDA x : x # <<>>)

\* the length of the common prefix of two lists
RECURSIVE commonprefix(_, _)
commonprefix(s1, s2) ==
  IF s1 = <<>> \/ s2 = <<>> \/ Head(s1) # Head(s2) THEN 0
  ELSE 1 + commonprefix(Tail(s1), Tail(s2))

\* variant: the steps up from the start are left out
relpath_no_pardir(path, start, cwd) ==
  IF path = <<>> THEN Raise("ValueError")
  ELSE LET start_list == Components(abspath(start, cwd))
           path_list == Components(abspath(path, cwd))
           i == commonprefix(start_list, path_list)
           rel_list == SubSeq(path_list, i + 1, Len(path_list))
       IN IF rel_list = <<>> THEN Str(<<".">>) ELSE Str(slash_join(rel_list))

\* os.path.relpath
relpath(path, start, cwd) ==
  IF path = <<>> THEN Raise("ValueError")
  ELSE LET start_list == Components(abspath(start, cwd))
           path_list == Components(abspath(path, cwd))
           i == commonprefix(start_list, path_list)
           rel_list == [k \in 1..(Len(start_list) - i) |-> <<".", ".">>]
                         \o SubSeq(path_list, i + 1, Len(path_list))
       IN IF rel_list = <<>> THEN Str(<<".">>) ELSE Str(slash_join(rel_list))

\* pathlib.Path(s) on POSIX, by the text it stands for: empty and "."
\* components are dropped, the root is kept
Path(s) ==
  LET starts(n) == Len(s) >= n /\ \A i \in 1..n : s[i] = "/"
      root == IF ~starts(1) THEN <<>>
              ELSE IF starts(2) /\ ~starts(3) THEN <<"/", "/">> ELSE <<"/">>
      parts == SelectSeq(split(s, 1, <<>>), LAMBDA x : x # <<>> /\ x # <<".">>)
      text == root \o slash_join(parts)
  IN PathV(IF text = <<>> THEN <<".">> ELSE text)

relative_normpath(f, path, cwd) ==
  IF f # None
    THEN LET r == relpath(f[2], path, cwd)
         IN IF r[1] = "raise" THEN r ELSE Path(r[2])
    ELSE None

BaseInputs ==
  {<<>>, <<"/">>, <<"/", "a">>, <<"a">>, <<"/", "/", "a">>, <<"a", "/", "b">>,
   <<".", ".">>, <<"/", "a", "/", "b", "/">>}

CwdInputs == {<<"/">>, <<"/", "b">>}

PathInputs ==
  ({None} \cup {Str(x) : x \in StringsUpTo(PathChars, MaxPathLen)})
    \X BaseInputs \X CwdInputs

RelativeNormpathCall ==
  PureCall("relative_normpath", relative_normpath(args[1], args[2], args[3]))

InitPath == PureInit(PathInputs)

NextPath == RelativeNormpathCall

SpecPath == InitPath /\ [][NextPath]_vars

\* r is a normalized relative path that leads from the base to the file
LeadsFromBaseToFile(r) ==
  /\ ~isabs(r)
  /\ normpath(r) = r
  /\ Components(normpath(path_join(abspath(args[2], args[3]), r)))
       = Components(abspath(args[1][2], args[3]))

\* C9 as stated: an absent file, null or empty, gives absent; every other
\* file gives the normalized path relative to the base, without an error.
C9_AsStated ==
  Finished("relative_normpath") =>
    IF args[1] = None \/ args[1] = Str(<<>>) THEN out = None
    ELSE out[1] = "Path" /\ LeadsFromBaseToFile(out[2])

\* C9 amended: a null file gives absent; the empty string raises ValueError
\* (os.path.relpath refuses an empty path); every other file gives the
\* normalized path relative to the base, without an error.
C9_RelativePath ==
  Finished("relative_normpath") =>
    IF args[1] = None THEN out = None
    ELSE IF args[1] = Str(<<>>) THEN out = Raise("ValueError")
    ELSE out[1] = "Path" /\ LeadsFromBaseToFile(out[2])

\* the empty file name was refused
C9_Witness ==
  /\ Finished("relative_normpath")
  /\ args[1] = Str(<<>>)
  /\ out = Raise("ValueError")

(***************************************************************************)
(* json_to_string: json.dumps with the indent and ensure_ascii that        *)
(* json_to_string passes on, and json.loads to read the text back.         *)
(* A JSON value is tagged: null, bool, int, str (a sequence of             *)
(* characters), list (a sequence of values), dict (a sequence of           *)
(* <<key, value>> pairs in insertion order, the keys distinct).            *)
(***************************************************************************)
\* longest string, most items of a list or dict
MaxJsonStr == 1
MaxItems == 2

JNull == <<"null">>

JList(xs) == <<"list", xs>>

JDict(ps) == <<"dict", ps>>

\* characters outside ASCII, and the backspace, are written by name
EACUTE == "U+00E9"

GRIN == "U+1F600"

BACKSPACE == "U+0008"

\* ord() of the characters that occur
ord(c) ==
  CASE c = "a" -> 97
    [] c = "\"" -> 34
    [] c = "\\" -> 92
    [] c = "/" -> 47
    [] c = "\n" -> 10
    [] c = "\t" -> 9
    [] c = "\r" -> 13
    [] c = "\f" -> 12
    [] c = BACKSPACE -> 8
    [] c = EACUTE -> 233
    [] c = GRIN -> 128512
    [] OTHER -> 63

KnownChars == {"a", "\"", "\\", "/", "\n", "\t", "\r", "\f", BACKSPACE, EACUTE, GRIN}

\* chr() of a code point; a code point of no known character reads as "?"
chr(n) ==
  IF \E c \in KnownChars : ord(c) = n
    THEN CHOOSE c \in KnownChars : ord(c) = n
    ELSE "?"

DigitChars == <<"0", "1", "2", "3", "4", "5", "6", "7", "8", "9">>

HexChars ==
  <<"0", "1", "2", "3", "4", "5", "6", "7", "8", "9", "a", "b", "c", "d", "e", "f">>

RECURSIVE nat_repr(_)
nat_repr(n) ==
  IF n < 10 THEN <<DigitChars[n + 1]>>
  ELSE nat_repr(n \div 10) \o <<DigitChars[(n % 10) + 1]>>

\* int.__repr__
int_repr(n) == IF n < 0 THEN <<"-">> \o nat_repr(0 - n) ELSE nat_repr(n)

\* "\\u{0:04x}".format(n)
u_escape(n) ==
  <<"\\", "u", HexChars[((n \div 4096) % 16) + 1], HexChars[((n \div 256) % 16) + 1],
    HexChars[((n \div 16) % 16) + 1], HexChars[(n % 16) + 1]>>

\* the short escapes of json.encoder.ESCAPE_DCT
short_escape(c) ==
  CASE c = "\\" -> <<"\\", "\\">>
    [] c = "\"" -> <<"\\", "\"">>
    [] c = "\n" -> <<"\\", "n">>
    [] c = "\r" -> <<"\\", "r">>
    [] c = "\t" -> <<"\\", "t">>
    [] c = "\f" -> <<"\\", "f">>
    [] c = BACKSPACE -> <<"\\", "b">>
    [] OTHER -> <<>>

\* variant: the backslash itself is not escaped
encode_char_keeps_backslash(c, ensure_ascii) ==
  IF c # "\\" /\ short_escape(c) # <<>> THEN short_escape(c)
  ELSE IF ord(c) < 32 THEN u_escape(ord(c))
  ELSE IF ensure_ascii /\ ord(c) > 127
    THEN IF ord(c) < 65536 THEN u_escape(ord(c))
         ELSE LET n == ord(c) - 65536
              IN u_escape(55296 + ((n \div 1024) % 1024)) \o u_escape(56320 + (n % 1024))
  ELSE <<c>>

\* one character of a string, as py_encode_basestring (ensure_ascii false)
\* or py_encode_basestring_ascii (ensure_ascii true) writes it
encode_char(c, ensure_ascii) ==
  IF short_escape(c) # <<>> THEN short_escape(c)
  ELSE IF ord(c) < 32 THEN u_escape(ord(c))
  ELSE IF ensure_ascii /\ ord(c) > 127
    THEN IF ord(c) < 65536 THEN u_escape(ord(c))
         ELSE LET n == ord(c) - 65536
              IN u_escape(55296 + ((n \div 1024) % 1024)) \o u_escape(56320 + (n % 1024))
  ELSE <<c>>

RECURSIVE encode_chars(_, _)
encode_chars(str, ensure_ascii) ==
  IF str = <<>> THEN <<>>
  ELSE encode_char(Head(str), ensure_ascii) \o encode_chars(Tail(str), ensure_ascii)

encode_basestring(str, ensure_ascii) ==
  <<"\"">> \o encode_chars(str, ensure_ascii) \o <<"\"">>

RECURSIVE repeat(_, _)
repeat(str, n) == IF n <= 0 THEN <<>> ELSE str \o repeat(str, n - 1)

\* JSONEncoder.iterencode: indent is None (one line, ", " between items) or
\* the text of one indentation level ("," and a new line between items)
RECURSIVE iterencode(_, _, _, _)
RECURSIVE iterencode_items(_, _, _, _, _)
iterencode_items(items, is_dict, indent, ensure_ascii, level) ==
  LET newline_indent == IF indent = None THEN <<>> ELSE <<"\n">> \o repeat(indent[2], level)
      separator == IF indent = None THEN <<",", " ">> ELSE <<",">> \o newline_indent
      one(x) == IF is_dict
                  THEN encode_basestring(x[1], ensure_ascii) \o <<":", " ">>
                         \o iterencode(x[2], indent, ensure_ascii, level)
                  ELSE iterencode(x, indent, ensure_ascii, level)
  IN newline_indent \o join(separator, [i \in 1..Len(items) |-> one(items[i])])

iterencode(o, indent, ensure_ascii, level) ==
  CASE o[1] = "null" -> <<"n", "u", "l", "l">>
    [] o[1] = "bool" -> IF o[2] THEN <<"t", "r", "u", "e">> ELSE <<"f", "a", "l", "s", "e">>
    [] o[1] = "int" -> int_repr(o[2])
    [] o[1] = "str" -> encode_basestring(o[2], ensure_ascii)
    [] o[1] \in {"list", "dict"} ->
         LET open == IF o[1] = "list" THEN <<"[">> ELSE <<"{">>
             close == IF o[1] = "list" THEN <<"]">> ELSE <<"}">>
         IN IF o[2] = <<>> THEN open \o close
            ELSE open
                   \o iterencode_items(o[2], o[1] = "dict", indent, ensure_ascii, level + 1)
                   \o (IF indent = None THEN <<>> ELSE <<"\n">> \o repeat(indent[2], level))
                   \o close

\* json.dumps(obj, indent=..., ensure_ascii=...): an integer indent stands
\* for that many spaces
dumps(obj, indent, ensure_ascii) ==
  LET ind == IF indent = None THEN None
             ELSE IF indent[1] = "int" THEN Str(repeat(<<" ">>, indent[2]))
             ELSE indent
  IN iterencode(obj, ind, ensure_ascii, 0)

\* kwargs.pop(key, default)
pop(kwargs, key, default) == IF key \in DOMAIN kwargs THEN kwargs[key] ELSE default

json_to_string(obj, kwargs) ==
  LET indent == pop(kwargs, "indent", IntV(2))
      ensure_ascii == pop(kwargs, "ensure_ascii", Bool(FALSE))
  IN Str(dumps(obj, indent, ensure_ascii[2]))

(***************************************************************************)
(* json.loads, for the round trip.  A parse step gives <<"ok", value,      *)
(* next index>> or <<"err">>.                                              *)
(***************************************************************************)
Ok(v, i) == <<"ok", v, i>>

Err == <<"err">>

At(s, i) == IF i >= 1 /\ i <= Len(s) THEN s[i] ELSE "EOF"

\* json.decoder.WHITESPACE.match(s, i).end()
RECURSIVE skip_ws(_, _)
skip_ws(s, i) ==
  IF At(s, i) \in {" ", "\t", "\n", "\r"} THEN skip_ws(s, i + 1) ELSE i

HexVal(c) ==
  IF \E k \in 1..16 : HexChars[k] = c
    THEN (CHOOSE k \in 1..16 : HexChars[k] = c) - 1
    ELSE -1

\* the four hexadecimal digits at i, or -1
Hex4(s, i) ==
  IF i + 3 > Len(s) \/ \E k \in 0..3 : HexVal(s[i + k]) < 0 THEN -1
  ELSE HexVal(s[i]) * 4096 + HexVal(s[i + 1]) * 256 + HexVal(s[i + 2]) * 16 + HexVal(s[i + 3])

\* json.decoder.BACKSLASH
backslash(c) ==
  CASE c = "\"" -> "\""
    [] c = "\\" -> "\\"
    [] c = "/" -> "/"
    [] c = "b" -> BACKSPACE
    [] c = "f" -> "\f"
    [] c = "n" -> "\n"
    [] c = "r" -> "\r"
    [] c = "t" -> "\t"
    [] OTHER -> "EOF"

\* py_scanstring, from the character after the opening quote
RECURSIVE scanstring(_, _, _)
scanstring(s, i, acc) ==
  LET c == At(s, i)
  IN IF c = "EOF" THEN Err
     ELSE IF c = "\"" THEN Ok(acc, i + 1)
     ELSE IF c = "\\"
       THEN LET esc == At(s, i + 1)
            IN IF esc = "u"
                 THEN LET uni == Hex4(s, i + 2)
                          uni2 == IF At(s, i + 6) = "\\" /\ At(s, i + 7) = "u"
                                    THEN Hex4(s, i + 8) ELSE -1
                      IN IF uni < 0 THEN Err
                         ELSE IF uni >= 55296 /\ uni <= 56319 /\ uni2 >= 56320 /\ uni2 <= 57343
                           THEN scanstring(s, i + 12,
                                  Append(acc, chr(65536 + (uni - 55296) * 1024 + (uni2 - 56320))))
                         ELSE scanstring(s, i + 6, Append(acc, chr(uni)))
               ELSE IF backslash(esc) = "EOF" THEN Err
               ELSE scanstring(s, i + 2, Append(acc, backslash(esc)))
     ELSE IF ord(c) < 32 /\ c \in KnownChars THEN Err
     ELSE scanstring(s, i + 1, Append(acc, c))

IsDigit(c) == \E k \in 1..10 : DigitChars[k] = c

DigitVal(c) == (CHOOSE k \in 1..10 : DigitChars[k] = c) - 1

RECURSIVE scan_digits(_, _, _)
scan_digits(s, i, n) ==
  IF IsDigit(At(s, i)) THEN scan_digits(s, i + 1, n * 10 + DigitVal(s[i])) ELSE <<n, i>>

\* json.scanner.NUMBER_RE, integers only: -?(0|[1-9][0-9]*), and no
\* fraction or exponent after it
scan_number(s, i) ==
  LET neg == At(s, i) = "-"
      j == IF neg THEN i + 1 ELSE i
      r == IF At(s, j) = "0" THEN <<0, j + 1>> ELSE scan_digits(s, j, 0)
  IN IF ~IsDigit(At(s, j)) \/ At(s, r[2]) \in {".", "e", "E"} THEN Err
     ELSE Ok(<<"int", IF neg THEN 0 - r[1] ELSE r[1]>>, r[2])

Literal(s, i, word) == i + Len(word) - 1 <= Len(s) /\ SubSeq(s, i, i + Len(word) - 1) = word

\* d[key] = value on a dict kept as a sequence of pairs
dict_set(pairs, key, value) ==
  IF \E k \in 1..Len(pairs) : pairs[k][1] = key
    THEN [k \in 1..Len(pairs) |-> IF pairs[k][1] = key THEN <<key, value>> ELSE pairs[k]]
    ELSE Append(pairs, <<key, value>>)

\* scan_once, JSONArray and JSONObject of json.scanner / json.decoder
RECURSIVE scan_once(_, _)
RECURSIVE JSONArray(_, _, _)
RECURSIVE JSONObject(_, _, _)
JSONArray(s, i, values) ==
  LET v == scan_once(s, i)
  IN IF v[1] = "err" THEN Err
     ELSE LET end == skip_ws(s, v[3])
              nextchar == At(s, end)
          IN IF nextchar = "]" THEN Ok(JList(Append(values, v[2])), end + 1)
             ELSE IF nextchar # "," THEN Err
             ELSE JSONArray(s, skip_ws(s, end + 1), Append(values, v[2]))

JSONObject(s, i, pairs) ==
  IF At(s, i) # "\"" THEN Err
  ELSE LET key == scanstring(s, i + 1, <<>>)
       IN IF key[1] = "err" THEN Err
          ELSE LET colon == skip_ws(s, key[3])
               IN IF At(s, colon) # ":" THEN Err
                  ELSE LET v == scan_once(s, skip_ws(s, colon + 1))
                       IN IF v[1] = "err" THEN Err
                          ELSE LET end == skip_ws(s, v[3])
                                   nextchar == At(s, end)
                                   added == dict_set(pairs, key[2], v[2])
                               IN IF nextchar = "}" THEN Ok(JDict(added), end + 1)
                                  ELSE IF nextchar # "," THEN Err
                                  ELSE JSONObject(s, skip_ws(s, end + 1), added)

scan_once(s, i) ==
  LET nextchar == At(s, i)
  IN CASE nextchar = "\"" ->
            LET r == scanstring(s, i + 1, <<>>)
            IN IF r[1] = "err" THEN Err ELSE Ok(Str(r[2]), r[3])
       [] nextchar = "{" ->
            LET j == skip_ws(s, i + 1)
            IN IF At(s, j) = "}" THEN Ok(JDict(<<>>), j + 1) ELSE JSONObject(s, j, <<>>)
       [] nextchar = "[" ->
            LET j == skip_ws(s, i + 1)
            IN IF At(s, j) = "]" THEN Ok(JList(<<>>), j + 1) ELSE JSONArray(s, j, <<>>)
       [] nextchar = "n" -> IF Literal(s, i, <<"n", "u", "l", "l">>) THEN Ok(JNull, i + 4) ELSE Err
       [] nextchar = "t" -> IF Literal(s, i, <<"t", "r", "u", "e">>) THEN Ok(Bool(TRUE), i + 4) ELSE Err
       [] nextchar = "f" ->
            IF Literal(s, i, <<"f", "a", "l", "s", "e">>) THEN Ok(Bool(FALSE), i + 5) ELSE Err
       [] OTHER -> scan_number(s, i)

\* json.loads: one value, white space around it, nothing else
loads(s) ==
  LET r == scan_once(s, skip_ws(s, 1))
  IN IF r[1] = "err" THEN Err
     ELSE IF skip_ws(s, r[3]) # Len(s) + 1 THEN Err
     ELSE <<"ok", r[2]>>

(***************************************************************************)
(* The values and options that are tried.                                  *)
(***************************************************************************)
JsonChars == {"a", "\"", "\\", "\n", EACUTE, GRIN}

JsonInts == {-12, 0, 7}

Atoms ==
  {JNull, Bool(TRUE), Bool(FALSE)}
    \cup {IntV(n) : n \in JsonInts}
    \cup {Str(x) : x \in StringsUpTo(JsonChars, MaxJsonStr)}

JsonKeys == {<<"a">>, <<EACUTE, "\"">>}

\* the sequences of at most MaxItems elements of a set
SeqsUpTo(S) == UNION {[1..k -> S] : k \in 0..MaxItems}

\* the lists, and the dicts with distinct keys, over a set of values
Containers(S) ==
  {JList(xs) : xs \in SeqsUpTo(S)}
    \cup {JDict(ps) : ps \in {qs \in SeqsUpTo(JsonKeys \X S) :
                                \A i, j \in 1..Len(qs) : i # j => qs[i][1] # qs[j][1]}}

InnerAtoms == {JNull, Bool(TRUE), IntV(-12), Str(<<EACUTE, "\\">>)}

InnerContainers ==
  {JList(<<>>), JDict(<<>>), JList(<<IntV(7), Str(<<GRIN>>)>>),
   JDict(<<<<<<"a">>, JNull>>>>), JDict(<<<<<<"\n">>, JList(<<Bool(FALSE)>>)>>>>)}

JsonValues == Atoms \cup Containers(InnerAtoms) \cup Containers(InnerAtoms \cup InnerContainers)

IndentChoices == {None, IntV(0), IntV(1), Str(<<"\t">>)}

JsonKwargs ==
  UNION {{kw \in [S -> IndentChoices \cup {Bool(TRUE), Bool(FALSE)}] :
            /\ "indent" \in S => kw["indent"] \in IndentChoices
            /\ "ensure_ascii" \in S => kw["ensure_ascii"] \in {Bool(TRUE), Bool(FALSE)}} :
           S \in SUBSET {"indent", "ensure_ascii"}}

JsonInputs == JsonValues \X JsonKwargs

JsonToStringCall == PureCall("json_to_string", json_to_string(args[1], args[2]))

InitJson == PureInit(JsonInputs)

NextJson == JsonToStringCall

SpecJson == InitJson /\ [][NextJson]_vars

====
